---- MODULE Spec2Model ----
(***************************************************************************)
(* Model of src/app.py: the session store, the monthly payment ledger and  *)
(* the reports derived from them (monthly rollup, per-client history).      *)
(*                                                                         *)
(* Text is modelled as sequences: a client name is a sequence of           *)
(* characters, each written as a one-character string or, outside ASCII,   *)
(* as its code point ("U+0130"); a serialized timestamp, a date, a money string and a *)
(* month label are sequences of character codes (ASCII), so that the       *)
(* store's and pandas' string comparisons are lexicographic comparisons.   *)
(* Amounts are whole pesos.                                                *)
(***************************************************************************)
EXTENDS Integers, Sequences, FiniteSets, TLC

VARIABLES
    sessions,          \* table "sessions": set of rows [id, client, ts, amount]
    next_id,           \* the store-assigned id of the next inserted session
    monthly_payments,  \* table "monthly_payments": rows in the order a select returns them, unique on (client, year, month)
    last,              \* the last operation performed and what it returned
    latest,            \* history: per ledger key, the paid flag of the latest set_monthly_payment
    nops,              \* number of requests served so far
    raw,               \* input of the last normalize_client evaluation (pure-function runs)
    out,               \* its result
    ui,                \* the script run in progress: position, widgets, df_mes, what the page shows
    auth               \* login: dispatched codes, st.session_state, the last login action

vars == <<sessions, next_id, monthly_payments, last, latest, nops, raw, out, ui, auth>>

\* ------------------------------------------------------------------ bounds
MaxOps == 4        \* requests per behaviour of Spec
MaxStoreOps == 3   \* requests per behaviour of SpecStore and SpecWindow
MaxLen == 4        \* length of the raw strings given to normalize_client
MaxRuns == 2       \* script runs per behaviour of SpecUI
MaxLoginOps == 3   \* login actions per behaviour of SpecLogin

\* ------------------------------------------------------------ Python values
\* None: no client name is one multi-character token, and no date or date text
\* has length 1.
None == <<"None">>

\* ------------------------------------------------------------ generic helpers
RECURSIVE LexLess(_, _)
\* Lexicographic "<" on sequences of numbers (string comparison by code point).
LexLess(a, b) ==
    IF a = <<>> THEN b # <<>>
    ELSE IF b = <<>> THEN FALSE
    ELSE IF a[1] < b[1] THEN TRUE
    ELSE IF a[1] > b[1] THEN FALSE
    ELSE LexLess(Tail(a), Tail(b))

LexLeq(a, b) == a = b \/ LexLess(a, b)

RECURSIVE SortKeyed(_)
\* A set of <<key, value>> pairs with distinct keys, as the sequence of values
\* in ascending key order.
SortKeyed(ps) ==
    IF ps = {} THEN <<>>
    ELSE LET m == CHOOSE p \in ps : \A q \in ps : LexLeq(p[1], q[1])
         IN <<m[2]>> \o SortKeyed(ps \ {m})

RECURSIVE SumSet(_)
\* Sum of the amounts of a set of session rows.
SumSet(S) ==
    IF S = {} THEN 0
    ELSE LET s == CHOOSE x \in S : TRUE IN s.amount + SumSet(S \ {s})

\* The elements of a sequence.
Range(s) == {s[i] : i \in 1..Len(s)}

RECURSIVE Flatten(_)
Flatten(ss) == IF ss = <<>> THEN <<>> ELSE Head(ss) \o Flatten(Tail(ss))

\* ------------------------------------------------------------ characters
\* The characters of the raw names: two cased letters in both cases, two
\* whitespace characters, one uncased non-space character, the capital I with
\* dot above (U+0130), whose lower case is two characters, and the combining
\* dot above (U+0307), an uncased mark. Lower-casing adds "i"; "I" is its
\* capital.
Alphabet == {"a", "A", "b", "B", " ", "\t", "-", "U+0130", "U+0307"}

IsSpace(c) == c \in {" ", "\t"}
\* Characters with the Unicode property Cased.
IsCased(c) == c \in {"a", "A", "b", "B", "i", "I", "U+0130"}
\* The title-case form of one character.
Upper(c) == CASE c = "a" -> "A" [] c = "b" -> "B" [] c = "i" -> "I" [] OTHER -> c
\* str.lower() of one character: the full lower-case mapping, a string.
Lower(c) ==
    CASE c = "A" -> <<"a">> [] c = "B" -> <<"b">> [] c = "I" -> <<"i">>
      [] c = "U+0130" -> <<"i", "U+0307">>
      [] OTHER -> <<c>>
\* Code point of a character.
Ord(c) ==
    CASE c = "\t" -> 9  [] c = " " -> 32 [] c = "-" -> 45
      [] c = "A" -> 65  [] c = "B" -> 66 [] c = "I" -> 73
      [] c = "a" -> 97  [] c = "b" -> 98 [] c = "i" -> 105
      [] c = "U+0130" -> 304 [] c = "U+0307" -> 775
Codes(s) == [i \in 1..Len(s) |-> Ord(s[i])]

\* ------------------------------------------------------------ normalize_client
RECURSIVE SplitFrom(_, _, _, _)
SplitFrom(s, i, cur, acc) ==
    IF i > Len(s) THEN (IF cur = <<>> THEN acc ELSE Append(acc, cur))
    ELSE IF IsSpace(s[i])
         THEN SplitFrom(s, i + 1, <<>>, IF cur = <<>> THEN acc ELSE Append(acc, cur))
         ELSE SplitFrom(s, i + 1, Append(cur, s[i]), acc)

\* str.split(): the maximal runs of non-whitespace characters.
Split(s) == SplitFrom(s, 1, <<>>, <<>>)

RECURSIVE Join(_)
\* " ".join(words)
Join(words) ==
    IF words = <<>> THEN <<>>
    ELSE IF Len(words) = 1 THEN words[1]
    ELSE words[1] \o <<" ">> \o Join(Tail(words))

\* str.title(): a character is lower-cased (full mapping) after a cased
\* character of the input and title-cased otherwise.
Title(s) ==
    Flatten([i \in 1..Len(s) |->
                IF i > 1 /\ IsCased(s[i - 1]) THEN Lower(s[i]) ELSE <<Upper(s[i])>>])

RECURSIVE StripLeft(_)
StripLeft(s) ==
    IF s # <<>> /\ IsSpace(s[1]) THEN StripLeft(Tail(s)) ELSE s

RECURSIVE StripRight(_)
StripRight(s) ==
    IF s # <<>> /\ IsSpace(s[Len(s)]) THEN StripRight(SubSeq(s, 1, Len(s) - 1)) ELSE s

\* str.strip()
Strip(s) == StripRight(StripLeft(s))

\* Python truthiness of an optional string: None and "" are falsy.
Falsy(s) == s = None \/ s = <<>>

\* " ".join(raw.split()): the case of the letters is kept.
normalize_no_title(r) ==
    IF Falsy(r) THEN <<>> ELSE Join(Split(r))

normalize_client(r) ==
    IF Falsy(r) THEN <<>> ELSE Title(Join(Split(r)))

\* ------------------------------------------------------------ numbers as text
D2(n) == <<48 + ((n \div 10) % 10), 48 + (n % 10)>>
D3(n) == <<48 + ((n \div 100) % 10)>> \o D2(n)
\* The year of date.isoformat(): four digits, zero-padded.
D4(n) == <<48 + ((n \div 1000) % 10)>> \o D3(n)

RECURSIVE Dec(_)
\* Decimal digits of a natural number, no padding.
Dec(n) == IF n < 10 THEN <<48 + n>> ELSE Dec(n \div 10) \o <<48 + (n % 10)>>

RECURSIVE ParseInt(_)
\* The number a sequence of decimal digits denotes.
ParseInt(ds) ==
    IF ds = <<>> THEN 0
    ELSE 10 * ParseInt(SubSeq(ds, 1, Len(ds) - 1)) + (ds[Len(ds)] - 48)

RECURSIVE Grouped(_)
\* format(n, ","): the digits of n >= 0 in groups of three separated by ",".
Grouped(n) ==
    IF n < 1000 THEN Dec(n) ELSE Grouped(n \div 1000) \o <<44>> \o D3(n % 1000)

\* f"${x:,.0f}".replace(",", "."), for a whole amount x.
fmt_money(x) ==
    LET body == IF x < 0 THEN <<45>> \o Grouped(0 - x) ELSE Grouped(x)
    IN <<36>> \o [i \in 1..Len(body) |-> IF body[i] = 44 THEN 46 ELSE body[i]]

\* ------------------------------------------------------------ dates and times
\* datetime(year, month, day, hour, minute, second)
datetime(y, mo, d, h, mi, s) ==
    [year |-> y, month |-> mo, day |-> d, hour |-> h, minute |-> mi, second |-> s]

\* date(year, month, day), as the triple <<year, month, day>>
date(y, mo, d) == <<y, mo, d>>

\* ts.strftime("%Y-%m-%d %H:%M:%S"): the C library's %Y writes the year
\* without padding, the other fields with two digits.
strftime(dt) ==
    Dec(dt.year) \o <<45>> \o D2(dt.month) \o <<45>> \o D2(dt.day) \o <<32>>
    \o D2(dt.hour) \o <<58>> \o D2(dt.minute) \o <<58>> \o D2(dt.second)

\* date.isoformat()
isoformat(d) == D4(d[1]) \o <<45>> \o D2(d[2]) \o <<45>> \o D2(d[3])

\* The number of digits of the year of a stored timestamp: those before the
\* first "-".
YearDigits(ts) ==
    (CHOOSE i \in 1..Len(ts) : ts[i] = 45 /\ \A j \in 1..(i - 1) : ts[j] # 45) - 1

\* pd.to_datetime(ts) of a stored timestamp
to_datetime(ts) ==
    LET n == YearDigits(ts)
    IN datetime(ParseInt(SubSeq(ts, 1, n)), ParseInt(SubSeq(ts, n + 2, n + 3)),
                ParseInt(SubSeq(ts, n + 5, n + 6)), ParseInt(SubSeq(ts, n + 8, n + 9)),
                ParseInt(SubSeq(ts, n + 11, n + 12)), ParseInt(SubSeq(ts, n + 14, n + 15)))

\* .dt.year and .dt.month of a stored timestamp
ts_year(ts) == to_datetime(ts).year
ts_month(ts) == to_datetime(ts).month

MESES_ES == <<
    <<69, 110, 101, 114, 111>>,                          \* Enero
    <<70, 101, 98, 114, 101, 114, 111>>,                 \* Febrero
    <<77, 97, 114, 122, 111>>,                           \* Marzo
    <<65, 98, 114, 105, 108>>,                           \* Abril
    <<77, 97, 121, 111>>,                                \* Mayo
    <<74, 117, 110, 105, 111>>,                          \* Junio
    <<74, 117, 108, 105, 111>>,                          \* Julio
    <<65, 103, 111, 115, 116, 111>>,                     \* Agosto
    <<83, 101, 112, 116, 105, 101, 109, 98, 114, 101>>,  \* Septiembre
    <<79, 99, 116, 117, 98, 114, 101>>,                  \* Octubre
    <<78, 111, 118, 105, 101, 109, 98, 114, 101>>,       \* Noviembre
    <<68, 105, 99, 105, 101, 109, 98, 114, 101>> >>      \* Diciembre

\* f"{MESES_ES[m-1]} {y}" (MESES_ES is indexed from 1 here)
month_label_es(y, m) == MESES_ES[m] \o <<32>> \o Dec(y)

\* The window [first instant of the month, first instant of the next month).
month_range(year, month) ==
    LET start_dt == datetime(year, month, 1, 0, 0, 0)
        end_dt == datetime(year + (IF month = 12 THEN 1 ELSE 0),
                           IF month = 12 THEN 1 ELSE month + 1, 1, 0, 0, 0)
    IN <<start_dt, end_dt>>

\* ------------------------------------------------------------ data layer: reads
\* .gte("ts", start).lte("ts", end): the end of the window is included.
InWindow_closed(ts, start_s, end_s) == LexLeq(start_s, ts) /\ LexLeq(ts, end_s)

\* The store's filter .gte("ts", start).lt("ts", end) on the serialized text.
InWindow(ts, start_s, end_s) == LexLeq(start_s, ts) /\ LexLess(ts, end_s)

\* Rows of "sessions" with start_dt <= ts < end_dt, ascending by ts (rows with
\* equal ts in id order), client re-normalized.
fetch_sessions_between(start_dt, end_dt) ==
    LET hit == {s \in sessions : InWindow(s.ts, strftime(start_dt), strftime(end_dt))}
        rows == SortKeyed({<<s.ts \o <<s.id>>, s>> : s \in hit})
    IN [i \in 1..Len(rows) |->
           [id |-> rows[i].id, client |-> normalize_client(rows[i].client),
            ts |-> rows[i].ts, amount |-> rows[i].amount]]

\* Sorted distinct normalized client names of "sessions".
fetch_distinct_clients ==
    LET names == {normalize_client(s.client) : s \in sessions}
    IN SortKeyed({<<Codes(c), c>> : c \in names})

get_monthly_payment(client, year, month) ==
    LET c == normalize_client(client)
        data == SelectSeq(monthly_payments,
                          LAMBDA p : p.client = c /\ p.year = year /\ p.month = month)
    IN IF data = <<>> THEN [paid |-> 0, paid_on |-> None]
       ELSE LET row == data[1]
            IN [paid |-> IF row.paid THEN 1 ELSE 0, paid_on |-> row.paid_on]

\* One row per (client, year, month) with sessions, sorted by (Cliente, Anio, Mes);
\* restricted to one client when the argument is truthy.
sessions_agg_by_client_month(client) ==
    LET df0 == {[id |-> s.id, client |-> normalize_client(s.client),
                 Anio |-> ts_year(s.ts), Mes |-> ts_month(s.ts),
                 amount |-> s.amount] : s \in sessions}
        df == IF Falsy(client) THEN df0
              ELSE {r \in df0 : r.client = normalize_client(client)}
        keys == {<<r.client, r.Anio, r.Mes>> : r \in df}
        group(k) == {r \in df : <<r.client, r.Anio, r.Mes>> = k}
        agg == {[Cliente |-> k[1], Anio |-> k[2], Mes |-> k[3],
                 Clases |-> Cardinality(group(k)), Monto |-> SumSet(group(k))] : k \in keys}
    IN SortKeyed({<<Codes(a.Cliente) \o <<0, a.Anio, a.Mes>>, a>> : a \in agg})

\* The explicit placeholder of an absent paid-on date, "—" (U+2014).
Placeholder == <<8212>>

\* how="inner": aggregate rows without a ledger row are dropped.
join_inner(agg_df) ==
    IF agg_df = <<>> THEN agg_df
    ELSE IF monthly_payments = <<>>
    THEN [i \in 1..Len(agg_df) |->
            [Cliente |-> agg_df[i].Cliente, Anio |-> agg_df[i].Anio, Mes |-> agg_df[i].Mes,
             Clases |-> agg_df[i].Clases, Monto |-> agg_df[i].Monto,
             Estado |-> "Pendiente", FechaPago |-> Placeholder]]
    ELSE LET match(a) == SelectSeq(monthly_payments,
                                   LAMBDA p : /\ normalize_client(p.client) = a.Cliente
                                              /\ p.year = a.Anio /\ p.month = a.Mes)
             row(a, p) ==
                 [Cliente |-> a.Cliente, Anio |-> a.Anio, Mes |-> a.Mes,
                  Clases |-> a.Clases, Monto |-> a.Monto,
                  Estado |-> IF p.paid THEN "Pagado" ELSE "Pendiente",
                  FechaPago |-> IF p.paid_on = None THEN Placeholder ELSE p.paid_on]
             rows(a) == [j \in 1..Len(match(a)) |-> row(a, match(a)[j])]
         IN Flatten([i \in 1..Len(agg_df) |-> rows(agg_df[i])])

\* how="outer": ledger rows without an aggregate row are appended.
join_outer(agg_df) ==
    IF agg_df = <<>> THEN agg_df
    ELSE LET key(a) == <<a.Cliente, a.Anio, a.Mes>>
             keys == {key(agg_df[i]) : i \in 1..Len(agg_df)}
             match(a) == SelectSeq(monthly_payments,
                                   LAMBDA p : <<normalize_client(p.client), p.year, p.month>> = key(a))
             row(a, paid, paid_on) ==
                 [Cliente |-> a.Cliente, Anio |-> a.Anio, Mes |-> a.Mes,
                  Clases |-> a.Clases, Monto |-> a.Monto,
                  Estado |-> IF paid THEN "Pagado" ELSE "Pendiente",
                  FechaPago |-> IF paid_on = None THEN Placeholder ELSE paid_on]
             rows(a) ==
                 IF match(a) = <<>> THEN <<row(a, FALSE, None)>>
                 ELSE [j \in 1..Len(match(a)) |-> row(a, match(a)[j].paid, match(a)[j].paid_on)]
             extra == SelectSeq(monthly_payments,
                                LAMBDA p : <<normalize_client(p.client), p.year, p.month>> \notin keys)
         IN Flatten([i \in 1..Len(agg_df) |-> rows(agg_df[i])])
            \o [j \in 1..Len(extra) |->
                  [Cliente |-> normalize_client(extra[j].client), Anio |-> extra[j].year,
                   Mes |-> extra[j].month, Clases |-> 0, Monto |-> 0,
                   Estado |-> IF extra[j].paid THEN "Pagado" ELSE "Pendiente",
                   FechaPago |-> IF extra[j].paid_on = None THEN Placeholder
                                 ELSE extra[j].paid_on]]

\* Left merge of the aggregate rows with the ledger on (Cliente, Anio, Mes):
\* the aggregate rows in their order, each with its ledger rows in the order
\* the store returned them.
join_with_payments(agg_df) ==
    IF agg_df = <<>> THEN agg_df
    ELSE IF monthly_payments = <<>>
    THEN [i \in 1..Len(agg_df) |->
            [Cliente |-> agg_df[i].Cliente, Anio |-> agg_df[i].Anio, Mes |-> agg_df[i].Mes,
             Clases |-> agg_df[i].Clases, Monto |-> agg_df[i].Monto,
             Estado |-> "Pendiente", FechaPago |-> Placeholder]]
    ELSE LET match(a) == SelectSeq(monthly_payments,
                                   LAMBDA p : /\ normalize_client(p.client) = a.Cliente
                                              /\ p.year = a.Anio /\ p.month = a.Mes)
             row(a, paid, paid_on) ==
                 [Cliente |-> a.Cliente, Anio |-> a.Anio, Mes |-> a.Mes,
                  Clases |-> a.Clases, Monto |-> a.Monto,
                  Estado |-> IF paid = 1 THEN "Pagado" ELSE "Pendiente",
                  FechaPago |-> IF paid_on = None THEN Placeholder ELSE paid_on]
             rows(a) ==
                 IF match(a) = <<>> THEN <<row(a, 0, None)>>
                 ELSE [j \in 1..Len(match(a)) |->
                          row(a, IF match(a)[j].paid THEN 1 ELSE 0, match(a)[j].paid_on)]
         IN Flatten([i \in 1..Len(agg_df) |-> rows(agg_df[i])])

\* The history table of one client: the merged rows labelled with the month
\* text, money formatted, sorted by the label.
hist(cliente_hist) ==
    LET agg_cli == sessions_agg_by_client_month(cliente_hist)
        joined == join_with_payments(agg_cli)
        shown == [i \in 1..Len(joined) |->
                    [MesTexto |-> month_label_es(joined[i].Anio, joined[i].Mes),
                     Clases |-> joined[i].Clases, Monto |-> fmt_money(joined[i].Monto),
                     Estado |-> joined[i].Estado, FechaPago |-> joined[i].FechaPago]]
    IN SortKeyed({<<shown[i].MesTexto \o <<0, i>>, shown[i]>> : i \in 1..Len(shown)})

\* The monthly rollup: one row per normalized client of the month's sessions,
\* with the ledger status of that client for that (year, month).
resumen_of(df_mes, year, month) ==
    LET names == {normalize_client(df_mes[i].client) : i \in 1..Len(df_mes)}
        group(c) == {df_mes[i] : i \in {j \in 1..Len(df_mes) : normalize_client(df_mes[j].client) = c}}
        rows == {[Cliente |-> c, Clases |-> Cardinality({r.id : r \in group(c)}),
                  Monto |-> fmt_money(SumSet(group(c))),
                  Estado |-> IF get_monthly_payment(c, year, month).paid = 1
                             THEN "Pagado" ELSE "Pendiente"] : c \in names}
    IN SortKeyed({<<Codes(r.Cliente), r>> : r \in rows})

\* The rollup of the sessions the store holds for (year, month).
resumen(year, month) ==
    LET w == month_range(year, month)
    IN resumen_of(fetch_sessions_between(w[1], w[2]), year, month)

\* The month listing ("Clases del mes"): one numbered row per session of df_mes.
vista(df_mes) ==
    [i \in 1..Len(df_mes) |->
        [N |-> i, Cliente |-> normalize_client(df_mes[i].client),
         ts |-> df_mes[i].ts, Valor |-> fmt_money(df_mes[i].amount),
         id |-> df_mes[i].id]]

\* ------------------------------------------------------------ data layer: writes
\* The row add_session inserts; the store assigns the id.
session_row(client, ts, amount) ==
    [id |-> next_id, client |-> normalize_client(client),
     ts |-> strftime(ts), amount |-> amount]

\* .delete().lte("id", row_id): every older row goes too.
rows_after_delete_lte(row_id) == {s \in sessions : s.id > row_id}

\* The rows left by .delete().eq("id", row_id).
rows_after_delete(row_id) == {s \in sessions : s.id # row_id}

\* "paid_on": paid_on.isoformat() if paid_on else None: the date is kept when unpaid.
payload_keeps_date(client, year, month, paid, paid_on) ==
    [client |-> normalize_client(client), year |-> year, month |-> month,
     paid |-> paid,
     paid_on |-> IF paid_on # None THEN isoformat(paid_on) ELSE None]

\* "client": client: the name is written as given.
payload_raw_client(client, year, month, paid, paid_on) ==
    [client |-> client, year |-> year, month |-> month,
     paid |-> paid,
     paid_on |-> IF paid /\ paid_on # None THEN isoformat(paid_on) ELSE None]

\* The row set_monthly_payment writes.
payload(client, year, month, paid, paid_on) ==
    [client |-> normalize_client(client), year |-> year, month |-> month,
     paid |-> paid,
     paid_on |-> IF paid /\ paid_on # None THEN isoformat(paid_on) ELSE None]

\* upsert(row, on_conflict="client,year,month"): the row with that key is
\* replaced where it is; a row with a new key is added at the end.
upsert(row) ==
    LET same(p) == p.client = row.client /\ p.year = row.year /\ p.month = row.month
    IN IF \E i \in 1..Len(monthly_payments) : same(monthly_payments[i])
       THEN [i \in 1..Len(monthly_payments) |->
                IF same(monthly_payments[i]) THEN row ELSE monthly_payments[i]]
       ELSE Append(monthly_payments, row)

\* ------------------------------------------------------------ operations
\* What the data layer never touches.
pure == <<raw, out, ui, auth>>

add_session(client, ts, amount) ==
    /\ sessions' = sessions \cup {session_row(client, ts, amount)}
    /\ next_id' = next_id + 1
    /\ last' = [op |-> "add_session", id |-> next_id, client |-> client, amount |-> amount]
    /\ nops' = nops + 1
    /\ UNCHANGED <<monthly_payments, latest, pure>>

\* The "Guardar clase" handler of form_registro: the amount widget admits no
\* value below 0; an absent or blank name is refused with an error message.
form_registro(cliente_input, class_dt, amount) ==
    /\ amount >= 0
    /\ nops' = nops + 1
    /\ IF Falsy(cliente_input) \/ Falsy(Strip(cliente_input))
       THEN /\ last' = [op |-> "form_registro", ok |-> FALSE,
                        client |-> cliente_input, amount |-> amount]
            /\ UNCHANGED <<sessions, next_id>>
       ELSE /\ sessions' = sessions \cup {session_row(cliente_input, class_dt, amount)}
            /\ next_id' = next_id + 1
            /\ last' = [op |-> "form_registro", ok |-> TRUE,
                        client |-> cliente_input, amount |-> amount]
    /\ UNCHANGED <<monthly_payments, latest, pure>>

delete_session(row_id) ==
    /\ sessions' = rows_after_delete(row_id)
    /\ last' = [op |-> "delete_session", id |-> row_id,
                found |-> \E s \in sessions : s.id = row_id]
    /\ nops' = nops + 1
    /\ UNCHANGED <<next_id, monthly_payments, latest, pure>>

set_monthly_payment(client, year, month, paid, paid_on) ==
    /\ monthly_payments' = upsert(payload(client, year, month, paid, paid_on))
    /\ last' = [op |-> "set_monthly_payment", client |-> client, year |-> year,
                month |-> month, paid |-> paid, paid_on |-> paid_on,
                was |-> get_monthly_payment(client, year, month)]
    /\ latest' = {k \in latest : ~(k[1] = normalize_client(client) /\ k[2] = year /\ k[3] = month)}
                 \cup {<<normalize_client(client), year, month, paid>>}
    /\ nops' = nops + 1
    /\ UNCHANGED <<sessions, next_id, pure>>

\* A point lookup of the ledger, as the rollup and the payment form perform it.
read_monthly_payment(client, year, month) ==
    /\ last' = [op |-> "get_monthly_payment", client |-> client, year |-> year,
                month |-> month, ret |-> get_monthly_payment(client, year, month)]
    /\ nops' = nops + 1
    /\ UNCHANGED <<sessions, next_id, monthly_payments, latest, pure>>

\* One evaluation of normalize_client on the chosen raw string.
Normalize ==
    /\ out = <<"unset">>
    /\ out' = normalize_client(raw)
    /\ UNCHANGED <<sessions, next_id, monthly_payments, last, latest, nops, raw, ui, auth>>

\* ------------------------------------------------------------ inputs
\* Raw client names: two spellings of one client, another client, a blank name.
ab1 == <<"a", " ", " ", "b">>
ab2 == <<"A", " ", "B", "\t">>
ba == <<"b", "a">>
blank == <<" ", "\t">>

\* Timestamps around month boundaries: month lengths 28, 29, 30 and 31, and
\* the turn of the year.
Boundaries == {
    datetime(2024, 2, 29, 23, 59, 59), datetime(2024, 3, 1, 0, 0, 0),
    datetime(2024, 12, 31, 23, 59, 59), datetime(2025, 1, 1, 0, 0, 0),
    datetime(2025, 2, 28, 23, 59, 59), datetime(2025, 3, 1, 0, 0, 0),
    datetime(2025, 4, 30, 23, 59, 59), datetime(2025, 5, 1, 0, 0, 0) }

Stamps == {datetime(2025, 1, 1, 0, 0, 0), datetime(2025, 4, 30, 23, 59, 59)}
Months == {<<2025, 1>>, <<2025, 4>>}
PaidOn == {None, date(2025, 1, 20)}

RECURSIVE SeqsUpTo(_, _)
\* All sequences over S of length at most n.
SeqsUpTo(S, n) ==
    IF n = 0 THEN {<<>>}
    ELSE LET shorter == SeqsUpTo(S, n - 1)
         IN shorter \cup {Append(s, c) : s \in shorter, c \in S}

RawStrings == SeqsUpTo(Alphabet, MaxLen) \cup {None}

\* ------------------------------------------------------------ specifications
InitStore ==
    /\ sessions = {}
    /\ next_id = 1
    /\ monthly_payments = <<>>
    /\ last = [op |-> "init"]
    /\ latest = {}
    /\ nops = 0

\* No script run in progress, nothing shown.
UiIdle ==
    [pc |-> "idle", ym |-> <<2025, 1>>, event |-> "none", df_mes |-> <<>>,
     listing |-> <<>>, resumen |-> <<>>, runs |-> 0]

\* Nobody logged in, no code dispatched: outbox is the sequence of addresses a
\* code was sent to, codes the addresses with a code not yet used, pending and
\* session the entries "pending_email" and "sb_session" of st.session_state.
AuthOut ==
    [outbox |-> <<>>, codes |-> {}, pending |-> None, session |-> None,
     last |-> [op |-> "init"], n |-> 0]

Init == InitStore /\ raw = <<>> /\ out = <<>> /\ ui = UiIdle /\ auth = AuthOut

\* The store and the ledger together.
Next ==
    \/ nops < MaxOps /\ \E c \in {ab1, ab2, ba}, t \in Stamps : add_session(c, t, 30000)
    \/ nops < MaxOps /\ \E i \in 1..MaxOps : delete_session(i)
    \/ nops < MaxOps /\ \E ym \in Months, paid \in BOOLEAN, d \in PaidOn :
                            set_monthly_payment(ab2, ym[1], ym[2], paid, d)
    \/ nops < MaxOps /\ \E ym \in Months : read_monthly_payment(ab1, ym[1], ym[2])

Spec == Init /\ [][Next]_vars

\* The session store alone, with names and amounts of every kind.
NextStore ==
    \/ nops < MaxStoreOps /\ \E c \in {ab1, ba, blank}, t \in Stamps,
                                a \in {0 - 5000, 30000} : add_session(c, t, a)
    \/ nops < MaxStoreOps /\ \E c \in {ab2, blank, None}, a \in {0, 25000} :
                                form_registro(c, datetime(2025, 1, 1, 0, 0, 0), a)
    \/ nops < MaxStoreOps /\ \E i \in 1..MaxStoreOps : delete_session(i)

SpecStore == Init /\ [][NextStore]_vars

\* The session store alone, with timestamps at month boundaries.
NextWindow ==
    \/ nops < MaxStoreOps /\ \E t \in Boundaries : add_session(ab1, t, 30000)
    \/ nops < MaxStoreOps /\ \E i \in 1..MaxStoreOps : delete_session(i)

SpecWindow == Init /\ [][NextWindow]_vars

\* normalize_client as a pure function of every raw string within the bound.
InitNorm ==
    InitStore /\ raw \in RawStrings /\ out = <<"unset">> /\ ui = UiIdle /\ auth = AuthOut

SpecNorm == InitNorm /\ [][Normalize]_vars

\* ------------------------------------------------------------ one script run
\* Streamlit runs the script from top to bottom once per interaction; at most
\* one button is pressed in a run. The steps below are the places of the
\* script that read the store, write it, or put a report on the page.
store == <<sessions, next_id, monthly_payments, last, latest, nops>>

\* Lines 312-322: behind the login wall, the sidebar gives (year, month) and
\* df_mes is fetched for that month; the page is drawn anew.
RunStart(ym, event) ==
    /\ ui.pc = "idle"
    /\ ui.runs < MaxRuns
    /\ auth.session # None
    /\ ui' = [pc |-> "form", ym |-> ym, event |-> event,
              df_mes |-> LET w == month_range(ym[1], ym[2])
                         IN fetch_sessions_between(w[1], w[2]),
              listing |-> <<>>, resumen |-> <<>>, runs |-> ui.runs + 1]
    /\ UNCHANGED <<store, raw, out, auth>>

\* Lines 336-351: "Guardar clase", when it is the button pressed.
RunForm(cliente_input, class_dt, amount) ==
    /\ ui.pc = "form"
    /\ ui' = [ui EXCEPT !.pc = "listing"]
    /\ amount >= 0
    /\ IF ui.event # "form" THEN UNCHANGED store
       ELSE /\ nops' = nops + 1
            /\ IF Falsy(cliente_input) \/ Falsy(Strip(cliente_input))
               THEN /\ last' = [op |-> "form_registro", ok |-> FALSE,
                                client |-> cliente_input, amount |-> amount]
                    /\ UNCHANGED <<sessions, next_id>>
               ELSE /\ sessions' = sessions \cup {session_row(cliente_input, class_dt, amount)}
                    /\ next_id' = next_id + 1
                    /\ last' = [op |-> "form_registro", ok |-> TRUE,
                                client |-> cliente_input, amount |-> amount]
            /\ UNCHANGED <<monthly_payments, latest>>
    /\ UNCHANGED <<raw, out, auth>>

\* Lines 354-363: the month listing is drawn from df_mes.
RunListing ==
    /\ ui.pc = "listing"
    /\ ui' = [ui EXCEPT !.pc = "delete", !.listing = vista(ui.df_mes)]
    /\ UNCHANGED <<store, raw, out, auth>>

\* Lines 365-375: "Borrar seleccionado" deletes the session of the k-th row of
\* the listing, when it is the button pressed and the listing has rows.
RunDelete(k) ==
    /\ ui.pc = "delete"
    /\ ui' = [ui EXCEPT !.pc = "resumen"]
    /\ IF ui.event # "delete" \/ ui.df_mes = <<>> THEN UNCHANGED store
       ELSE /\ k \in 1..Len(ui.df_mes)
            /\ sessions' = rows_after_delete(ui.df_mes[k].id)
            /\ last' = [op |-> "delete_session", id |-> ui.df_mes[k].id,
                        found |-> \E s \in sessions : s.id = ui.df_mes[k].id]
            /\ nops' = nops + 1
            /\ UNCHANGED <<next_id, monthly_payments, latest>>
    /\ UNCHANGED <<raw, out, auth>>

\* Lines 378-402: the rollup is drawn from df_mes, with a ledger lookup per row.
RunResumen ==
    /\ ui.pc = "resumen"
    /\ ui' = [ui EXCEPT !.pc = "pay",
                        !.resumen = resumen_of(ui.df_mes, ui.ym[1], ui.ym[2])]
    /\ UNCHANGED <<store, raw, out, auth>>

\* Lines 405-440: "Guardar estado de pago mensual" for the k-th known client
\* and the (year, month) pm chosen in the payment form's own widgets (preset
\* to the sidebar's), when it is the button pressed and there are clients;
\* the run ends.
RunPay(k, pm, paid, fecha) ==
    /\ ui.pc = "pay"
    /\ ui' = [ui EXCEPT !.pc = "idle"]
    /\ LET all_clients == fetch_distinct_clients
       IN IF ui.event # "pay" \/ all_clients = <<>> THEN UNCHANGED store
          ELSE /\ k \in 1..Len(all_clients)
               /\ monthly_payments' =
                     upsert(payload(all_clients[k], pm[1], pm[2], paid, fecha))
               /\ last' = [op |-> "set_monthly_payment", client |-> all_clients[k],
                           year |-> pm[1], month |-> pm[2], paid |-> paid,
                           paid_on |-> fecha,
                           was |-> get_monthly_payment(all_clients[k], pm[1], pm[2])]
               /\ latest' = {x \in latest : ~(x[1] = normalize_client(all_clients[k])
                                               /\ x[2] = pm[1] /\ x[3] = pm[2])}
                            \cup {<<normalize_client(all_clients[k]), pm[1], pm[2], paid>>}
               /\ nops' = nops + 1
               /\ UNCHANGED <<sessions, next_id>>
    /\ UNCHANGED <<raw, out, auth>>

\* A logged-in user: the state require_login lets through.
InitUI ==
    /\ InitStore /\ raw = <<>> /\ out = <<>> /\ ui = UiIdle
    /\ auth = [AuthOut EXCEPT !.session = <<"a">>, !.pending = <<"a">>]

NextUI ==
    \/ \E ym \in Months, e \in {"none", "form", "delete", "pay"} : RunStart(ym, e)
    \/ \E c \in {ab1, ba, blank}, dt \in Stamps : RunForm(c, dt, 30000)
    \/ RunListing
    \/ \E k \in 1..MaxRuns : RunDelete(k)
    \/ RunResumen
    \/ \E k \in 1..2, pm \in Months, paid \in BOOLEAN : RunPay(k, pm, paid, date(2025, 1, 20))

SpecUI == InitUI /\ [][NextUI]_vars

\* ------------------------------------------------------------ login
\* email.lower()
LowerSeq(s) == Flatten([i \in 1..Len(s) |-> Lower(s[i])])

\* "Enviar codigo al correo" without the allow-list gate: the code is sent
\* whatever the check answered.
send_code_ungated(email, chk, otp) ==
    LET tried == [op |-> "send", email |-> email,
                  checked |-> LowerSeq(Strip(email)), chk |-> chk]
    IN IF otp = "error"
       THEN [auth EXCEPT !.last = tried, !.n = auth.n + 1]
       ELSE [auth EXCEPT !.outbox = Append(auth.outbox, Strip(email)),
                         !.codes = auth.codes \cup {Strip(email)},
                         !.pending = Strip(email),
                         !.last = tried, !.n = auth.n + 1]

\* "Enviar codigo al correo": the login state after the button, for the typed
\* email, the answer chk of the is_allowed call ("error" when it raises, else
\* the truth value of its data) and the outcome otp of sign_in_with_otp.
send_code(email, chk, otp) ==
    IF Falsy(email)
    THEN [auth EXCEPT !.last = [op |-> "send", email |-> email,
                                checked |-> None, chk |-> "none"],
                      !.n = auth.n + 1]
    ELSE LET tried == [op |-> "send", email |-> email,
                       checked |-> LowerSeq(Strip(email)), chk |-> chk]
         IN IF chk = "error" \/ chk # "true" \/ otp = "error"
            THEN [auth EXCEPT !.last = tried, !.n = auth.n + 1]
            ELSE [auth EXCEPT !.outbox = Append(auth.outbox, Strip(email)),
                              !.codes = auth.codes \cup {Strip(email)},
                              !.pending = Strip(email),
                              !.last = tried, !.n = auth.n + 1]

data == <<sessions, next_id, monthly_payments, last, latest, nops, raw, out, ui>>

\* login_ui, first button; shown only while nobody is logged in.
login_send(email, chk, otp) ==
    /\ auth.session = None
    /\ auth.n < MaxLoginOps
    /\ auth' = send_code(email, chk, otp)
    /\ UNCHANGED data

\* login_ui, "Verificar codigo": shown once a pending email is recorded; the
\* typed code is good only if a code sent to the pending email is unused.
login_verify(good) ==
    /\ auth.session = None
    /\ auth.n < MaxLoginOps
    /\ auth.pending # None
    /\ IF good /\ auth.pending \in auth.codes
       THEN auth' = [auth EXCEPT !.session = auth.pending,
                                 !.codes = auth.codes \ {auth.pending},
                                 !.last = [op |-> "verify", ok |-> TRUE],
                                 !.n = auth.n + 1]
       ELSE auth' = [auth EXCEPT !.last = [op |-> "verify", ok |-> FALSE],
                                 !.n = auth.n + 1]
    /\ UNCHANGED data

\* require_login, "Cerrar sesion": the session entry is dropped.
logout ==
    /\ auth.session # None
    /\ auth.n < MaxLoginOps
    /\ auth' = [auth EXCEPT !.session = None, !.last = [op |-> "logout"],
                            !.n = auth.n + 1]
    /\ UNCHANGED data

\* Typed emails: an address, the same with capitals and spaces, another, a
\* blank one and none.
Emails == {<<"a">>, <<" ", "A", "\t">>, <<"b">>, <<" ">>, <<>>}

InitLogin == InitStore /\ raw = <<>> /\ out = <<>> /\ ui = UiIdle /\ auth = AuthOut

NextLogin ==
    \/ \E e \in Emails, chk \in {"true", "false", "error"}, otp \in {"ok", "error"} :
          login_send(e, chk, otp)
    \/ \E good \in BOOLEAN : login_verify(good)
    \/ logout

SpecLogin == InitLogin /\ [][NextLogin]_vars

\* ------------------------------------------------------------ claims
\* Client arguments of the reports: the raw spellings and the stored names.
ClientArgs == {ab1, ab2, ba} \cup {normalize_client(s.client) : s \in sessions}

HasLedgerRow(n, y, m) ==
    \E p \in Range(monthly_payments) : p.client = n /\ p.year = y /\ p.month = m

HasSession(n, y, m) ==
    \E s \in sessions :
        normalize_client(s.client) = n /\ ts_year(s.ts) = y /\ ts_month(s.ts) = m

\* The history output of one client before its columns are selected for display.
HistoryOf(c) == join_with_payments(sessions_agg_by_client_month(c))

RowsFor(H, n, y, m) ==
    {i \in 1..Len(H) : H[i].Cliente = n /\ H[i].Anio = y /\ H[i].Mes = m}

\* C1: no stored ledger row is unpaid and carries a paid-on date; right after
\* set_monthly_payment(c, y, m, paid = false, paid_on = d), for any d,
\* get_monthly_payment(c, y, m) returns paid = 0 and paid_on = None.
C1_UnpaidCarriesNoDate ==
    /\ \A p \in Range(monthly_payments) : ~p.paid => p.paid_on = None
    /\ (last.op = "set_monthly_payment" /\ ~last.paid) =>
          get_monthly_payment(last.client, last.year, last.month)
              = [paid |-> 0, paid_on |-> None]

\* C1 witness: a month that was paid with a date has just been set unpaid with
\* a date argument.
C1_Witness ==
    /\ last.op = "set_monthly_payment"
    /\ ~last.paid /\ last.paid_on # None
    /\ last.was.paid = 1 /\ last.was.paid_on # None

C3_HistoryExcludesEmptyMonths ==
    \A c \in ClientArgs :
        LET H == HistoryOf(c)
        IN /\ \A i \in 1..Len(H) : HasSession(H[i].Cliente, H[i].Anio, H[i].Mes)
           /\ Len(hist(c)) = Len(H)

\* C3 witness: the last session of a month has just been deleted, the month's
\* ledger row remains, and the client still has history rows.
C3_Witness ==
    /\ last.op = "delete_session" /\ last.found
    /\ \E p \in Range(monthly_payments) :
          /\ ~HasSession(p.client, p.year, p.month)
          /\ HistoryOf(p.client) # <<>>

\* Seconds-resolution position of a datetime, counted from the year 2000 on a
\* time line on which every month is given 31 days: increasing in
\* chronological order.
Instant(dt) ==
    (((((dt.year - 2000) * 12 + dt.month) * 31 + dt.day) * 24 + dt.hour) * 60
      + dt.minute) * 60 + dt.second

Years == {2024, 2025}
MonthWindows == {month_range(y, m) : y \in Years, m \in 1..12}
EdgeWindows ==
    LET edges == {datetime(2024, 12, 31, 23, 59, 59), datetime(2025, 1, 1, 0, 0, 0),
                  datetime(2025, 2, 28, 23, 59, 59), datetime(2025, 5, 1, 0, 0, 0)}
    IN edges \X edges

\* C4: fetch_sessions_between(start, end) returns exactly the stored sessions
\* with start <= ts < end, each once, in ascending ts order; under the windows
\* of month_range every session is in the window of its own (year, month) and
\* in no other.
C4_HalfOpenWindows ==
    LET at(s) == Instant(to_datetime(s.ts))
        ids(F) == {F[i].id : i \in 1..Len(F)}
        own(s) == month_range(to_datetime(s.ts).year, to_datetime(s.ts).month)
    IN \A w \in MonthWindows \cup EdgeWindows :
          LET F == fetch_sessions_between(w[1], w[2])
          IN /\ ids(F) = {s.id : s \in {x \in sessions :
                             Instant(w[1]) <= at(x) /\ at(x) < Instant(w[2])}}
             /\ Len(F) = Cardinality(ids(F))
             /\ \A i, j \in 1..Len(F) : i < j => at(F[i]) <= at(F[j])
             /\ w \in MonthWindows => \A s \in sessions : s.id \in ids(F) <=> w = own(s)

\* C4 witness: the store holds a session at the last second of December 2024
\* and one at the first instant of January 2025.
C4_Witness ==
    /\ \E s \in sessions : s.ts = strftime(datetime(2024, 12, 31, 23, 59, 59))
    /\ \E s \in sessions : s.ts = strftime(datetime(2025, 1, 1, 0, 0, 0))

\* Case- and whitespace-insensitive form of a name.
Fold(s) == LET j == Join(Split(s)) IN Flatten([i \in 1..Len(j) |-> Lower(j[i])])

InMonth(s, y, m) == ts_year(s.ts) = y /\ ts_month(s.ts) = m

RECURSIVE SumClases(_)
SumClases(R) == IF R = <<>> THEN 0 ELSE Head(R).Clases + SumClases(Tail(R))

\* C5: in the monthly rollup no two rows have names that differ only in case
\* or whitespace; each row counts the month's sessions of that client and
\* shows the sum of their amounts, every session of the month is counted in a
\* row, and the counts add up to the number of sessions of the month.
C5_RollupGroupsByClient ==
    \A ym \in Months :
        LET R == resumen(ym[1], ym[2])
            inmonth == {s \in sessions : InMonth(s, ym[1], ym[2])}
            of(r) == {s \in inmonth : Fold(s.client) = Fold(r.Cliente)}
        IN /\ \A i, j \in 1..Len(R) : Fold(R[i].Cliente) = Fold(R[j].Cliente) => i = j
           /\ \A i \in 1..Len(R) :
                 /\ R[i].Clases = Cardinality(of(R[i]))
                 /\ R[i].Monto = fmt_money(SumSet(of(R[i])))
           /\ \A s \in inmonth : \E i \in 1..Len(R) : Fold(R[i].Cliente) = Fold(s.client)
           /\ SumClases(R) = Cardinality(inmonth)

\* C5 witness: a class has just been saved under the spelling "A B<tab>" and
\* the rollup of January 2025 shows the client "A B" with 2 classes and
\* "$55.000".
C5_Witness ==
    /\ last.op = "form_registro" /\ last.ok /\ last.client = ab2
    /\ \E i \in 1..Len(resumen(2025, 1)) :
          /\ resumen(2025, 1)[i].Cliente = <<"A", " ", "B">>
          /\ resumen(2025, 1)[i].Clases = 2
          /\ resumen(2025, 1)[i].Monto = <<36, 53, 53, 46, 48, 48, 48>>

\* C6: a rollup row of client c in (year, month) reads Pagado exactly when the
\* latest set_monthly_payment for (normalize_client(c), year, month) had paid =
\* true, and Pendiente otherwise, also when none was ever made; the ledger
\* holds a row for exactly the keys set_monthly_payment was called for, so no
\* lookup has created one.
C6_StatusFollowsLatestPayment ==
    /\ \A ym \in Months :
          LET R == resumen(ym[1], ym[2])
          IN \A i \in 1..Len(R) :
                /\ R[i].Estado \in {"Pagado", "Pendiente"}
                /\ R[i].Estado = "Pagado" <=> <<R[i].Cliente, ym[1], ym[2], TRUE>> \in latest
    /\ {<<p.client, p.year, p.month>> : p \in Range(monthly_payments)}
          = {<<k[1], k[2], k[3]>> : k \in latest}

\* C6 witness: a lookup under the spelling "a  b" has just returned paid for a
\* month paid under the spelling "A B<tab>"; the rollup of that month shows
\* the client as Pagado, and the other month's key has no ledger row.
C6_Witness ==
    /\ last.op = "get_monthly_payment" /\ last.client = ab1 /\ last.ret.paid = 1
    /\ \E i \in 1..Len(resumen(last.year, last.month)) :
          resumen(last.year, last.month)[i].Estado = "Pagado"
    /\ Len(monthly_payments) = 1

\* C7: the session store holds no session with an empty client name or a
\* negative amount: add refuses both with a validation error and writes nothing.
C7_AddValidates ==
    \A s \in sessions : s.client # <<>> /\ s.amount >= 0

\* C8: delete_session(id) leaves exactly the sessions whose id is not id and
\* changes neither the ledger nor the next id; when no session has that id the
\* store is unchanged.
C8_DeleteFrame ==
    [][ last'.op = "delete_session" =>
           /\ \A s \in sessions : s.id # last'.id => s \in sessions'
           /\ \A s \in sessions' : s \in sessions /\ s.id # last'.id
           /\ monthly_payments' = monthly_payments
           /\ next_id' = next_id
           /\ ~last'.found => sessions' = sessions ]_vars

\* C8 witness: an id that was assigned and already deleted has just been
\* deleted again, with a ledger row in the store.
C8_Witness ==
    /\ last.op = "delete_session" /\ ~last.found /\ last.id < next_id
    /\ monthly_payments # <<>>

\* The (year, month) a month label stands for.
LabelMonth(label) ==
    CHOOSE ym \in (Years \X (1..12)) : month_label_es(ym[1], ym[2]) = label

\* C9: the rows of a client's history are in ascending (year, month) order.
C9_HistoryChronological ==
    \A c \in ClientArgs :
        LET H == hist(c)
        IN \A i, j \in 1..Len(H) :
              i < j => LET a == LabelMonth(H[i].MesTexto)
                           b == LabelMonth(H[j].MesTexto)
                       IN a[1] < b[1] \/ (a[1] = b[1] /\ a[2] <= b[2])

HasSpaceRun(s) == \E i \in 1..(Len(s) - 1) : IsSpace(s[i]) /\ IsSpace(s[i + 1])

\* C10: for every raw string, normalize_client of the normalized name is that
\* name; a normalized name has no two consecutive spaces and no space at
\* either end; the absent and the empty string normalize to the empty string.
C10_NormalizeIdempotent ==
    out # <<"unset">> =>
        /\ normalize_client(out) = out
        /\ ~HasSpaceRun(out)
        /\ out # <<>> => ~IsSpace(out[1]) /\ ~IsSpace(out[Len(out)])
        /\ Falsy(raw) => out = <<>>

\* C11: a month listing and a rollup equal, at the moment the run puts them on
\* the page, the ones computed from the sessions the store then holds.
C11_DisplayedReportsCurrent ==
    LET w == month_range(ui.ym[1], ui.ym[2])
    IN /\ ui.pc = "delete" => ui.listing = vista(fetch_sessions_between(w[1], w[2]))
       /\ ui.pc = "pay" => ui.resumen = resumen(ui.ym[1], ui.ym[2])

\* C12: a code is dispatched, and the pending email recorded, only in a send
\* action whose allow-list check answered allowed, and for the address that
\* was checked (up to letter case); a send action whose check failed or
\* answered not allowed sends nothing, records no pending email and
\* establishes no session.
C12_DispatchOnlyAfterAllowed ==
    [][ /\ (auth'.outbox # auth.outbox \/ auth'.pending # auth.pending) =>
              /\ auth'.last.op = "send" /\ auth'.last.chk = "true"
              /\ auth'.outbox = Append(auth.outbox, auth'.pending)
              /\ LowerSeq(auth'.pending) = auth'.last.checked
        /\ (auth'.n # auth.n /\ auth'.last.op = "send" /\ auth'.last.chk # "true") =>
              /\ auth'.outbox = auth.outbox
              /\ auth'.codes = auth.codes
              /\ auth'.pending = auth.pending
              /\ auth'.session = auth.session ]_vars

\* C12 witness: after a code went to an allowed address, a send for another
\* address has just been refused by the check; the first address is still
\* the pending one and nobody is logged in.
C12_Witness ==
    /\ auth.last.op = "send" /\ auth.last.chk = "false"
    /\ auth.last.checked = <<"b">>
    /\ auth.outbox = << <<"A">> >> /\ auth.pending = <<"A">>
    /\ auth.session = None

====
